---- MODULE Spec2Model ----
(***************************************************************************)
(* events-api-websocket-server: one Redis stream per channel is read by a *)
(* consumer task (stream_events), decoded (FromRedis) and handed to every *)
(* websocket session whose address is in the channel's DashSet            *)
(* (SocketEventHandler::handle).  Sessions register and deregister        *)
(* through the Server actor's mailbox.                                     *)
(*                                                                         *)
(* Entry IDs of a stream are modelled by the entry's position in the log  *)
(* (1, 2, ...): Redis hands out strictly increasing IDs.                   *)
(***************************************************************************)
EXTENDS Integers, Sequences, FiniteSets, TLC

\* ---------------------------------------------------------------- bounds
\* One run of the process (Spec): the hub and its sessions.
MaxLog == 2            \* entries ever appended to one stream
MaxSessions == 2       \* websocket sessions ever opened
\* The process restarted over the same store (SpecRuns): the cursor.
RunsMaxLog == 3        \* entries ever appended to one stream
RunsMaxSessions == 1   \* websocket sessions ever opened
MaxRuns == 2           \* process starts (one restart)
\* Two channels side by side (SpecChans).
ChansMaxLog == 1       \* entries ever appended to one stream
ChansMaxSessions == 1  \* websocket sessions ever opened
\* Sessions and the clock, no entry in the streams (SpecHb).
HbMaxSessions == 1     \* websocket sessions ever opened
\* One session and every kind of text frame (SpecFilter).
FilterMaxLog == 2      \* entries ever appended to one stream
FilterMaxSessions == 1 \* websocket sessions ever opened
\* Sessions side by side on one channel, and their clients (SpecClients).
ClientsMaxLog == 1     \* entries ever appended to one stream
ClientsMaxSessions == 2 \* websocket sessions ever opened
\* The Server's two handlers on messages of any order (SpecHub).
HubMaxMailbox == 2     \* messages waiting in the Server's mailbox
\* A store whose commands can fail (SpecStore).
StoreMaxLog == 2       \* entries ever appended to one stream
StoreMaxSessions == 1  \* websocket sessions ever opened
StoreMaxRuns == 2      \* process starts (one restart)
\* The consumers of both channels, no client connected (SpecCursors).
CursorsMaxLog == 1     \* entries ever appended to one stream
CursorsMaxRuns == 2    \* process starts (one restart)

\* ------------------------------------------------------ program constants
XREAD_COUNT == 100     \* xread(100, ...)
HEARTBEAT_INTERVAL == 5   \* seconds
CLIENT_TIMEOUT == 15      \* seconds

Channels == {"nft_mint", "nft_burn"}
MaxOf(S) == CHOOSE x \in S : \A y \in S : y <= x
Handles ==
  1..MaxOf({MaxSessions, RunsMaxSessions, ChansMaxSessions, HbMaxSessions,
            FilterMaxSessions, ClientsMaxSessions, StoreMaxSessions})
\* Shards of a DashSet: two handles share a shard, or they do not.
Shards == {1, 2}

\* A raw entry: its two blobs, each either decodable JSON of the expected
\* shape ("ok") or not ("bad"), and what the blobs say when they decode.
Entries == {[context |-> "ok", payload |-> "ok", owner_id |-> "alice",
             contract_id |-> "nft.near"],
            [context |-> "ok", payload |-> "bad", owner_id |-> "alice",
             contract_id |-> "nft.near"]}

\* Option::None, for a field of a filter.
None == "None"
\* EventWebSocket::filter: None, or Some(filter).
NoFilter == [some |-> FALSE, owner_id |-> None, contract_id |-> None]

\* A text frame of a client: not JSON at all, or a JSON object in which a
\* field of the filter is missing, is a string, or is of another type.
Missing == "missing"
WrongType == "5"
TxtOwner == [json |-> TRUE, owner_id |-> "bob", contract_id |-> Missing]
TxtContract == [json |-> TRUE, owner_id |-> Missing, contract_id |-> "nft.near"]
TxtBoth == [json |-> TRUE, owner_id |-> "alice", contract_id |-> "other.near"]
TxtWrongType == [json |-> TRUE, owner_id |-> WrongType, contract_id |-> "nft.near"]
TxtGarbage == [json |-> FALSE, owner_id |-> Missing, contract_id |-> Missing]
\* "{}", or an object with keys the filter does not know.
TxtEmpty == [json |-> TRUE, owner_id |-> Missing, contract_id |-> Missing]
Texts == {TxtOwner, TxtContract, TxtBoth, TxtWrongType, TxtGarbage, TxtEmpty}

\* Values of the cursor key / of last_id: absent, the literal "$", an ID.
Nil == [tag |-> "nil", n |-> 0]
Dollar == [tag |-> "$", n |-> 0]
Id(k) == [tag |-> "id", n |-> k]
\* The answer to a GET that failed.
Failed == [tag |-> "err", n |-> 0]

\* No evaluation of matches under way.
NoCall == [fn |-> "none", filter |-> <<>>, event |-> <<>>, done |-> FALSE,
           ret |-> FALSE]

VARIABLES
  log,       \* [Channels -> Seq(Entries)]   the Redis streams
  key,       \* [Channels -> cursor]         events_api_websocket_last_id_<c>
  cons,      \* [Channels -> record]         the stream_events tasks
  sockets,   \* [Channels -> SUBSET Handles] Server.*_sockets (DashSet)
  sess,      \* [Handles -> record]          EventWebSocket actors
  mailbox,   \* Seq of [op, h]               mailbox of the Server actor
  blocked,   \* BOOLEAN  the System thread is parked on a DashSet shard lock
  got,       \* [Handles -> Seq(Nat)]        IDs of the events pushed to the client
  lastFail,  \* [Channels -> Seq(Nat)]       history: the batch a consumer died in
  runs,      \* number of process starts so far
  lim,       \* [log, sessions, runs, texts] what the environment does at most
  call,      \* one evaluation of a Filter's matches: its arguments, its result
  hist       \* [Channels -> record]  history: the entries read (with the run
             \* they were read in) and those handle() returned Ok(()) for

vars ==
  <<log, key, cons, sockets, sess, mailbox, blocked, got, lastFail, runs, lim,
    call, hist>>

\* ------------------------------------------------------------- helpers
Range(s) == {s[i] : i \in 1..Len(s)}
Last(s) == s[Len(s)]
Min(a, b) == IF a < b THEN a ELSE b

\* A key that leaves the stream's name out.
SaveKeyShared(c) == <<"events_api_websocket_last_id_", "">>

\* save_key = format!("events_api_websocket_last_id_{stream_key}"): the
\* prefix, then the name of the stream.
SaveKey(c) == <<"events_api_websocket_last_id_", c>>

\* The keys of the store that hold a cursor.
SaveKeys == {SaveKey(c) : c \in Channels}

ConsFresh(pc) ==
  [pc |-> pc, last_id |-> Dollar, batch |-> <<>>, whole |-> <<>>, after |-> -1,
   cur |-> 0, reply |-> "none", cause |-> "none", failed |-> 0, snap |-> {},
   start |-> Nil, okd |-> {}]

\* st: the actor's life; why: what stopped it; idle: seconds since
\* last_heartbeat; due: seconds to the next turn of the heartbeat interval;
\* quiet (history): seconds since the last inbound frame of any kind; txt
\* (history): how the last text frame decoded; prev (history): the filter
\* that the last decoded text frame replaced; subs (history): subscribes of
\* the handle the Server has handled (2: two or more).
SessFresh ==
  [st |-> "none", chan |-> "nft_mint", shard |-> 1, filter |-> NoFilter,
   why |-> "none", idle |-> 0, due |-> 0, quiet |-> 0, txt |-> "none",
   prev |-> NoFilter, subs |-> 0]

\* main(): empty sets, the Server actor started, one consumer spawned per
\* channel of `on`.
InitOn(on, l) ==
  /\ log = [c \in Channels |-> <<>>]
  /\ key = [k \in SaveKeys |-> Nil]
  /\ cons = [c \in Channels |-> ConsFresh(IF c \in on THEN "start" ELSE "off")]
  /\ sockets = [c \in Channels |-> {}]
  /\ sess = [h \in Handles |-> SessFresh]
  /\ mailbox = <<>>
  /\ blocked = FALSE
  /\ got = [h \in Handles |-> <<>>]
  /\ lastFail = [c \in Channels |-> <<>>]
  /\ hist = [c \in Channels |-> [read |-> {}, ok |-> {}]]
  /\ runs = 1
  /\ lim = l
  /\ call = NoCall

Init == InitOn({"nft_mint"}, [log |-> MaxLog, sessions |-> MaxSessions, runs |-> 1])

InitRuns ==
  InitOn({"nft_mint"}, [log |-> RunsMaxLog, sessions |-> RunsMaxSessions, runs |-> MaxRuns])

InitChans ==
  InitOn(Channels, [log |-> ChansMaxLog, sessions |-> ChansMaxSessions, runs |-> 1])

\* ------------------------------------------------------------ decoding
\* FromRedis::from_redis: both blobs must decode.
FromRedisOk(e) == e.context = "ok" /\ e.payload = "ok"

\* -------------------------------------------------- DashSet iteration
\* DashSet::iter() walks the shards in index order and holds the read lock
\* of the shard of the element it has yielded.
Ord(h) == sess[h].shard * (Cardinality(Handles) + 1) + h
After(c, p) == {h \in sockets[c] : Ord(h) > p}
First(S) == CHOOSE h \in S : \A g \in S : Ord(h) <= Ord(g)

\* `break` for `break 'outer`: only the batch is left, the cursor is saved.
StoppedInner(r, cause, e) ==
  [r EXCEPT !.pc = "set", !.cause = cause, !.failed = e,
            !.reply = "none", !.snap = {}]

\* `continue 'outer` for `break 'outer`: the consumer reads again.
StoppedRetry(r, cause, e) ==
  [r EXCEPT !.pc = "read", !.cause = cause, !.failed = e,
            !.reply = "none", !.snap = {}]

\* `last_id = id` ahead of handler.handle(data), and `break` for
\* `break 'outer`: the cursor is saved with the ID of the entry that failed.
StoppedSaved(r, cause, e) ==
  [r EXCEPT !.pc = "set", !.cause = cause, !.failed = e,
            !.last_id = IF e > 0 THEN Id(e) ELSE @,
            !.reply = "none", !.snap = {}]

\* Err(..) of handler.handle(data): break 'outer, the task ends.  r.cur is
\* the socket the send to which failed (0: the entry did not decode).
Stopped(r, cause, e) ==
  [r EXCEPT !.pc = "stopped", !.cause = cause, !.failed = e,
            !.reply = "none", !.snap = {}]

\* last_id = id taken from the first entry of the batch only.
RECURSIVE AdvanceFirst(_, _, _, _)
AdvanceFirst(c, r, batch, p) ==
  IF batch = <<>>
  THEN [r EXCEPT !.pc = "set", !.batch = <<>>, !.cur = 0, !.reply = "none",
                 !.snap = {}]
  ELSE LET e == Head(batch)
           rest == After(c, IF p < 0 THEN 0 ELSE p)
       IN IF p < 0 /\ ~FromRedisOk(log[c][e])
          THEN Stopped([r EXCEPT !.batch = batch, !.cur = 0], "decode", e)
          ELSE IF rest = {}
          THEN AdvanceFirst(c, [r EXCEPT !.last_id = Id(Head(r.whole)),
                                         !.okd = @ \cup {e}],
                            Tail(batch), -1)
          ELSE LET h == First(rest)
               IN IF sess[h].st = "stopped"
                  THEN Stopped([r EXCEPT !.batch = batch, !.cur = h], "delivery", e)
                  ELSE [r EXCEPT !.pc = "await", !.batch = batch, !.cur = h,
                                 !.reply = "pending",
                                 !.snap = IF p < 0 THEN sockets[c] ELSE r.snap]

\* The consumer from one suspension point to the next: the rest of the
\* `for (id, data) in entries` loop.  p < 0: the head entry is not decoded
\* yet; p >= 0: the head entry is decoded and was sent to the sockets up to p.
RECURSIVE Advance(_, _, _, _)
Advance(c, r, batch, p) ==
  IF batch = <<>>
  THEN [r EXCEPT !.pc = "set", !.batch = <<>>, !.cur = 0, !.reply = "none",
                 !.snap = {}]
  ELSE LET e == Head(batch)
           rest == After(c, IF p < 0 THEN 0 ELSE p)
       IN IF p < 0 /\ ~FromRedisOk(log[c][e])
          THEN Stopped([r EXCEPT !.batch = batch, !.cur = 0], "decode", e)
          ELSE IF rest = {}
          THEN Advance(c, [r EXCEPT !.last_id = Id(e), !.okd = @ \cup {e}],
                       Tail(batch), -1)
          ELSE LET h == First(rest)
               IN IF sess[h].st = "stopped"
                  THEN Stopped([r EXCEPT !.batch = batch, !.cur = h], "delivery", e)
                  ELSE [r EXCEPT !.pc = "await", !.batch = batch, !.cur = h,
                                 !.reply = "pending",
                                 !.snap = IF p < 0 THEN sockets[c] ELSE r.snap]

\* One consumer step: the task's new state, and the batch it died in.
Step(c, r, fresh) ==
  /\ cons' = [cons EXCEPT ![c] = r]
  /\ lastFail' = [lastFail EXCEPT ![c] =
                    IF r.pc = "stopped" THEN r.whole
                    ELSE IF fresh THEN <<>> ELSE @]
  /\ hist' = [hist EXCEPT
                ![c].read = IF fresh THEN @ \cup {<<runs, i>> : i \in Range(r.whole)}
                            ELSE @,
                ![c].ok = @ \cup r.okd]

\* ------------------------------------------------------------ the store
\* XADD by the indexer that feeds the stream.
XAdd(c, e) ==
  /\ cons[c].pc # "off"
  /\ Len(log[c]) < lim.log
  /\ log' = [log EXCEPT ![c] = Append(@, e)]
  /\ UNCHANGED <<key, cons, sockets, sess, mailbox, blocked, got, lastFail, runs, lim, call, hist>>

\* A read that starts at the cursor, not after it.
ResolveInclusive(c, id) == IF id.tag = "id" THEN id.n - 1 ELSE Len(log[c])

\* XREAD ... STREAMS key id: the position the read starts after.
Resolve(c, id) == IF id.tag = "id" THEN id.n ELSE Len(log[c])

\* The entries in the opposite order.
XReadReplyRev(c, a, count) ==
  LET n == Min(Len(log[c]) - a, count) IN [i \in 1..n |-> a + n + 1 - i]

\* The entries XREAD COUNT count returns after position a.
XReadReply(c, a, count) ==
  [i \in 1..Min(Len(log[c]) - a, count) |-> a + i]

\* ------------------------------------------------------- stream_events
\* One loop for all the streams: it reads while no stream has failed.
XReadServeShared(c) ==
  /\ cons[c].pc = "read"
  /\ ~blocked
  /\ \A d \in Channels : cons[d].pc # "stopped"
  /\ LET a == Resolve(c, cons[c].last_id)
         b == XReadReply(c, a, XREAD_COUNT)
     IN IF Len(b) > 0
        THEN Step(c, Advance(c, [cons[c] EXCEPT !.whole = b, !.after = a, !.okd = {}], b, -1), TRUE)
        ELSE Step(c, [cons[c] EXCEPT !.pc = "blocked", !.whole = <<>>, !.after = a], FALSE)
  /\ UNCHANGED <<log, key, sockets, sess, mailbox, blocked, got, runs, lim, call>>

\* A consumer that starts at "$" whatever the key holds.
ConsumerGetFresh(c) ==
  /\ cons[c].pc = "start"
  /\ ~blocked
  /\ Step(c, [cons[c] EXCEPT !.pc = "read", !.start = key[SaveKey(c)],
                             !.last_id = Dollar], FALSE)
  /\ UNCHANGED <<log, key, sockets, sess, mailbox, blocked, got, runs, lim, call>>

\* let mut last_id = db.get(save_key).await.unwrap_or("$")
ConsumerGet(c) ==
  /\ cons[c].pc = "start"
  /\ ~blocked
  /\ LET v == key[SaveKey(c)]
     IN Step(c, [cons[c] EXCEPT !.pc = "read", !.start = v,
                   !.last_id = IF v.tag = "nil" THEN Dollar ELSE v], FALSE)
  /\ UNCHANGED <<log, key, sockets, sess, mailbox, blocked, got, runs, lim, call>>

\* db.get(save_key) is an Err for another reason than a missing key (the
\* connection is down for a moment): unwrap_or("$") all the same.
ConsumerGetErr(c) ==
  /\ cons[c].pc = "start"
  /\ ~blocked
  /\ Step(c, [cons[c] EXCEPT !.pc = "read", !.start = Failed, !.last_id = Dollar], FALSE)
  /\ UNCHANGED <<log, key, sockets, sess, mailbox, blocked, got, runs, lim, call>>

\* db.xread(..) is an Err: .expect("Failed to read redis stream") panics and
\* the task is gone.
XReadErr(c) ==
  /\ cons[c].pc \in {"read", "blocked"}
  /\ ~blocked
  /\ Step(c, Stopped([cons[c] EXCEPT !.cur = 0, !.whole = <<>>], "panic", 0), FALSE)
  /\ UNCHANGED <<log, key, sockets, sess, mailbox, blocked, got, runs, lim, call>>

\* db.set(..) is an Err: .expect("Failed to set last ID") panics and the
\* task is gone.
ConsumerSetErr(c) ==
  /\ cons[c].pc = "set"
  /\ ~blocked
  /\ Step(c, Stopped([cons[c] EXCEPT !.cur = 0], "panic", 0), FALSE)
  /\ UNCHANGED <<log, key, sockets, sess, mailbox, blocked, got, runs, lim, call>>

\* db.xread(100, stream_key, &last_id): entries are there, the read returns
\* them and the task handles them; none is there, the read blocks.
XReadServe(c) ==
  /\ cons[c].pc = "read"
  /\ ~blocked
  /\ LET a == Resolve(c, cons[c].last_id)
         b == XReadReply(c, a, XREAD_COUNT)
     IN IF Len(b) > 0
        THEN Step(c, Advance(c, [cons[c] EXCEPT !.whole = b, !.after = a, !.okd = {}], b, -1), TRUE)
        ELSE Step(c, [cons[c] EXCEPT !.pc = "blocked", !.whole = <<>>, !.after = a], FALSE)
  /\ UNCHANGED <<log, key, sockets, sess, mailbox, blocked, got, runs, lim, call>>

\* A blocked XREAD is served by the first XADD that follows it.
XReadWake(c) ==
  /\ cons[c].pc = "blocked"
  /\ ~blocked
  /\ Len(log[c]) > cons[c].after
  /\ LET b == XReadReply(c, cons[c].after, 1)
     IN Step(c, Advance(c, [cons[c] EXCEPT !.whole = b, !.okd = {}], b, -1), TRUE)
  /\ UNCHANGED <<log, key, sockets, sess, mailbox, blocked, got, runs, lim, call>>

\* BLOCK 250 ran out: an empty batch.
XReadTimeout(c) ==
  /\ cons[c].pc = "blocked"
  /\ ~blocked
  /\ Len(log[c]) = cons[c].after
  /\ Step(c, Advance(c, cons[c], <<>>, -1), TRUE)
  /\ UNCHANGED <<log, key, sockets, sess, mailbox, blocked, got, runs, lim, call>>

\* socket.send(..).await returned: Ok goes on with the next socket, Err
\* leaves handle() through `?`, and stream_events through break 'outer.
ConsumerResume(c) ==
  /\ cons[c].pc = "await"
  /\ ~blocked
  /\ cons[c].reply \in {"ok", "closed"}
  /\ IF cons[c].reply = "ok"
     THEN Step(c, Advance(c, cons[c], cons[c].batch, Ord(cons[c].cur)), FALSE)
     ELSE Step(c, Stopped(cons[c], "delivery", Head(cons[c].batch)), FALSE)
  /\ UNCHANGED <<log, key, sockets, sess, mailbox, blocked, got, runs, lim, call>>

\* db.set(save_key, &last_id), then the next turn of 'outer.
ConsumerSet(c) ==
  /\ cons[c].pc = "set"
  /\ key' = [key EXCEPT ![SaveKey(c)] = cons[c].last_id]
  /\ Step(c, [cons[c] EXCEPT !.pc = "read"], FALSE)
  /\ UNCHANGED <<log, sockets, sess, mailbox, blocked, got, runs, lim, call>>

\* ------------------------------------------------------------ sessions
\* A connect that replays to the client the entries dispatched so far.
ConnectBackfill(h, c, s) ==
  /\ h <= lim.sessions
  /\ sess[h].st = "none"
  /\ \A g \in Handles : g < h => sess[g].st # "none"
  /\ cons[c].pc # "off"
  /\ sess' = [sess EXCEPT ![h] = [SessFresh EXCEPT !.st = "starting", !.chan = c,
                                                   !.shard = s]]
  /\ mailbox' = Append(mailbox, [op |-> "sub", h |-> h])
  /\ got' = [got EXCEPT ![h] = [i \in 1..Cardinality(hist[c].ok) |->
                                  CHOOSE j \in hist[c].ok :
                                    Cardinality({k \in hist[c].ok : k <= j}) = i]]
  /\ UNCHANGED <<log, key, cons, sockets, blocked, lastFail, runs, lim, call, hist>>

\* A connect that takes over the filter of the session before it.
ConnectInherit(h, c, s) ==
  /\ h <= lim.sessions
  /\ sess[h].st = "none"
  /\ \A g \in Handles : g < h => sess[g].st # "none"
  /\ cons[c].pc # "off"
  /\ sess' = [sess EXCEPT ![h] = [SessFresh EXCEPT
                                    !.st = "starting", !.chan = c, !.shard = s,
                                    !.filter = IF h > 1 THEN sess[h - 1].filter
                                               ELSE NoFilter]]
  /\ mailbox' = Append(mailbox, [op |-> "sub", h |-> h])
  /\ UNCHANGED <<log, key, cons, sockets, blocked, got, lastFail, runs, lim, call, hist>>

\* nft_mint / nft_transfer / nft_burn: the actor is created with its address
\* and SubscribeToEvents(addr) is sent to the Server and awaited.
Connect(h, c, s) ==
  /\ h <= lim.sessions
  /\ sess[h].st = "none"
  /\ \A g \in Handles : g < h => sess[g].st # "none"
  /\ cons[c].pc # "off"
  /\ sess' = [sess EXCEPT ![h] = [SessFresh EXCEPT !.st = "starting", !.chan = c,
                                                   !.shard = s]]
  /\ mailbox' = Append(mailbox, [op |-> "sub", h |-> h])
  /\ UNCHANGED <<log, key, cons, sockets, blocked, got, lastFail, runs, lim, call, hist>>

Pending(op, h) == \E i \in 1..Len(mailbox) : mailbox[i] = [op |-> op, h |-> h]

\* EventWebSocket::started: the response is returned, and the actor polled,
\* once the Server has answered SubscribeToEvents.  last_heartbeat = now, and
\* the interval is armed.
SessionStarted(h) ==
  /\ sess[h].st = "starting"
  /\ ~Pending("sub", h)
  /\ sess' = [sess EXCEPT ![h].st = "active", ![h].idle = 0,
                          ![h].due = HEARTBEAT_INTERVAL]
  /\ UNCHANGED <<log, key, cons, sockets, mailbox, blocked, got, lastFail, runs, lim, call, hist>>

\* The event a session has in its mailbox, 0 for none.
Inbox(h) ==
  LET r == cons[sess[h].chan]
  IN IF sess[h].st \in {"starting", "active"} /\ r.pc = "await" /\ r.cur = h
        /\ r.reply = "pending"
     THEN Head(r.batch) ELSE 0

\* A filter one field of which is enough.
MatchesAny(f, e) ==
  \/ f.owner_id # None /\ e.owner_id = f.owner_id
  \/ f.contract_id # None /\ e.contract_id = f.contract_id
  \/ f.owner_id = None /\ f.contract_id = None

\* NftMintFilter::matches (NftBurnFilter::matches is the same code).
Matches(f, e) ==
  /\ f.owner_id # None => e.owner_id = f.owner_id
  /\ f.contract_id # None => e.contract_id = f.contract_id

\* self.filter.as_ref().map_or(true, |f| f.matches(&msg.0))
Passes(h, e) == ~sess[h].filter.some \/ Matches(sess[h].filter, e)

\* A handler that writes the event to the client twice.
SessionHandleEventTwice(h) ==
  /\ sess[h].st = "active"
  /\ Inbox(h) # 0
  /\ got' = [got EXCEPT ![h] =
               IF Passes(h, log[sess[h].chan][Inbox(h)])
               THEN Append(Append(@, Inbox(h)), Inbox(h)) ELSE @]
  /\ cons' = [cons EXCEPT ![sess[h].chan].reply = "ok"]
  /\ UNCHANGED <<log, key, sockets, sess, mailbox, blocked, lastFail, runs, lim, call, hist>>

\* Handler<Arc<Event<E>>> for EventWebSocket: ctx.text(..) if the filter lets
\* the event through, then the reply.
SessionHandleEvent(h) ==
  /\ sess[h].st = "active"
  /\ Inbox(h) # 0
  /\ got' = [got EXCEPT ![h] =
               IF Passes(h, log[sess[h].chan][Inbox(h)])
               THEN Append(@, Inbox(h)) ELSE @]
  /\ cons' = [cons EXCEPT ![sess[h].chan].reply = "ok"]
  /\ UNCHANGED <<log, key, sockets, sess, mailbox, blocked, lastFail, runs, lim, call, hist>>

\* A stopping() that forgets the Server.
SessionStopSilent(h) ==
  /\ sess[h].st \in {"starting", "active"}
  /\ sess' = [sess EXCEPT ![h].st = "stopped", ![h].due = 0]
  /\ cons' = IF Inbox(h) # 0
             THEN [cons EXCEPT ![sess[h].chan].reply = "closed"]
             ELSE cons
  /\ UNCHANGED <<log, key, sockets, mailbox, blocked, got, lastFail, runs, lim, call, hist>>

\* ctx.stop() (heartbeat timeout, protocol violation) or the end of the
\* client's stream, then EventWebSocket::stopping: UnsubscribeFromEvents is
\* sent to the Server; the mailbox is dropped with what it holds, and so is
\* the interval.
SessionStop(h) ==
  /\ sess[h].st \in {"starting", "active"}
  /\ sess' = [sess EXCEPT ![h].st = "stopped", ![h].due = 0]
  /\ mailbox' = Append(mailbox, [op |-> "unsub", h |-> h])
  /\ cons' = IF Inbox(h) # 0
             THEN [cons EXCEPT ![sess[h].chan].reply = "closed"]
             ELSE cons
  /\ UNCHANGED <<log, key, sockets, blocked, got, lastFail, runs, lim, call, hist>>

\* ctx.terminate() for ctx.stop(): the actor ends and stopping() is not run.
CtxStopQuiet(h, why) ==
  /\ sess' = [sess EXCEPT ![h].st = "stopped", ![h].why = why, ![h].due = 0]
  /\ mailbox' = mailbox
  /\ cons' = IF Inbox(h) # 0
             THEN [cons EXCEPT ![sess[h].chan].reply = "closed"]
             ELSE cons

\* ctx.stop() inside a handler of the session, then stopping() as above.
CtxStop(h, why) ==
  /\ sess' = [sess EXCEPT ![h].st = "stopped", ![h].why = why, ![h].due = 0]
  /\ mailbox' = Append(mailbox, [op |-> "unsub", h |-> h])
  /\ cons' = IF Inbox(h) # 0
             THEN [cons EXCEPT ![sess[h].chan].reply = "closed"]
             ELSE cons

\* One second passes; the interval of a session fires when it is due.
Pass ==
  /\ \E h \in Handles : sess[h].st = "active"
  /\ \A h \in Handles : sess[h].st = "active" => sess[h].due > 0
  /\ sess' = [h \in Handles |->
                IF sess[h].st = "active"
                THEN [sess[h] EXCEPT !.idle = @ + 1, !.due = @ - 1, !.quiet = @ + 1]
                ELSE sess[h]]
  /\ UNCHANGED <<log, key, cons, sockets, mailbox, blocked, got, lastFail, runs, lim, call, hist>>

\* A heartbeat that closes at 15 seconds sharp.
HeartbeatTickEager(h) ==
  /\ sess[h].st = "active"
  /\ sess[h].due = 0
  /\ IF sess[h].idle >= CLIENT_TIMEOUT
     THEN CtxStop(h, "heartbeat")
     ELSE /\ sess' = [sess EXCEPT ![h].due = HEARTBEAT_INTERVAL]
          /\ UNCHANGED <<mailbox, cons>>
  /\ UNCHANGED <<log, key, sockets, blocked, got, lastFail, runs, lim, call, hist>>

\* The closure of ctx.run_interval(HEARTBEAT_INTERVAL, ..): ctx.stop() if
\* now - last_heartbeat > CLIENT_TIMEOUT; a ping in any case.
HeartbeatTick(h) ==
  /\ sess[h].st = "active"
  /\ sess[h].due = 0
  /\ IF sess[h].idle > CLIENT_TIMEOUT
     THEN CtxStop(h, "heartbeat")
     ELSE /\ sess' = [sess EXCEPT ![h].due = HEARTBEAT_INTERVAL]
          /\ UNCHANGED <<mailbox, cons>>
  /\ UNCHANGED <<log, key, sockets, blocked, got, lastFail, runs, lim, call, hist>>

\* A decoder that wants one field of the filter at least.
FromStrOkSomeField(t) ==
  /\ t.json /\ t.owner_id # WrongType /\ t.contract_id # WrongType
  /\ t.owner_id # Missing \/ t.contract_id # Missing

\* serde_json::from_str::<NftMintFilter>(&text): a field that is missing is
\* None; text that is not JSON, or a field of another type, is an error.
FromStrOk(t) ==
  t.json /\ t.owner_id # WrongType /\ t.contract_id # WrongType
FromStr(t) ==
  [some |-> TRUE,
   owner_id |-> IF t.owner_id = Missing THEN None ELSE t.owner_id,
   contract_id |-> IF t.contract_id = Missing THEN None ELSE t.contract_id]

\* StreamHandler::handle, Ok(ws::Message::Ping(msg)): last_heartbeat = now,
\* and a pong.
ClientPing(h) ==
  /\ sess[h].st = "active"
  /\ sess' = [sess EXCEPT ![h].idle = 0, ![h].quiet = 0]
  /\ UNCHANGED <<log, key, cons, sockets, mailbox, blocked, got, lastFail, runs, lim, call, hist>>

\* StreamHandler::handle, Ok(ws::Message::Pong(_)): last_heartbeat = now.
ClientPong(h) ==
  /\ sess[h].st = "active"
  /\ sess' = [sess EXCEPT ![h].idle = 0, ![h].quiet = 0]
  /\ UNCHANGED <<log, key, cons, sockets, mailbox, blocked, got, lastFail, runs, lim, call, hist>>

\* A text that fills the fields it names and keeps the others.
ClientTextMerge(h, t) ==
  /\ sess[h].st = "active"
  /\ t \in lim.texts
  /\ LET old == sess[h].filter
         new == [some |-> TRUE,
                 owner_id |-> IF FromStr(t).owner_id = None THEN old.owner_id
                                           ELSE FromStr(t).owner_id,
                 contract_id |-> IF FromStr(t).contract_id = None THEN old.contract_id
                                 ELSE FromStr(t).contract_id]
     IN sess' = [sess EXCEPT ![h].quiet = 0,
                   ![h].txt = IF FromStrOk(t) THEN "ok" ELSE "err",
                   ![h].prev = IF FromStrOk(t) THEN sess[h].filter ELSE @,
                   ![h].filter = IF FromStrOk(t) THEN new ELSE @]
  /\ UNCHANGED <<log, key, cons, sockets, mailbox, blocked, got, lastFail, runs, lim, call, hist>>

\* A text that does not decode takes the filter away.
ClientTextReset(h, t) ==
  /\ sess[h].st = "active"
  /\ t \in lim.texts
  /\ sess' = [sess EXCEPT ![h].quiet = 0,
                 ![h].txt = IF FromStrOk(t) THEN "ok" ELSE "err",
                 ![h].prev = IF FromStrOk(t) THEN sess[h].filter ELSE @,
                 ![h].filter = IF FromStrOk(t) THEN FromStr(t) ELSE NoFilter]
  /\ UNCHANGED <<log, key, cons, sockets, mailbox, blocked, got, lastFail, runs, lim, call, hist>>

\* StreamHandler::handle, Ok(ws::Message::Text(text)): the filter is set if
\* the text decodes; nothing else is touched.
ClientText(h, t) ==
  /\ sess[h].st = "active"
  /\ t \in lim.texts
  /\ sess' = [sess EXCEPT ![h].quiet = 0,
                 ![h].txt = IF FromStrOk(t) THEN "ok" ELSE "err",
                 ![h].prev = IF FromStrOk(t) THEN sess[h].filter ELSE @,
                 ![h].filter = IF FromStrOk(t) THEN FromStr(t) ELSE @]
  /\ UNCHANGED <<log, key, cons, sockets, mailbox, blocked, got, lastFail, runs, lim, call, hist>>

\* StreamHandler::handle, `_ => ctx.stop()`: a binary, close, continuation
\* or no-op frame, or a protocol error.
ClientOther(h) ==
  /\ sess[h].st = "active"
  /\ CtxStop(h, "protocol")
  /\ UNCHANGED <<log, key, sockets, blocked, got, lastFail, runs, lim, call, hist>>

\* ---------------------------------------------------------- the Server
\* insert / remove take the write lock of the handle's shard; the consumer
\* suspended in socket.send(..).await holds that shard's read lock through
\* its iterator, on the same thread.
ShardHeld(h) ==
  LET r == cons[sess[h].chan]
  IN r.pc = "await" /\ sess[r.cur].shard = sess[h].shard

\* An insert that takes out what is there already.
HandleSubscribeToggle ==
  /\ ~blocked
  /\ mailbox # <<>>
  /\ Head(mailbox).op = "sub"
  /\ LET h == Head(mailbox).h
     IN IF ShardHeld(h)
        THEN /\ blocked' = TRUE
             /\ UNCHANGED <<sockets, mailbox, sess>>
        ELSE /\ sockets' = [sockets EXCEPT ![sess[h].chan] =
                              IF h \in @ THEN @ \ {h} ELSE @ \cup {h}]
             /\ mailbox' = Tail(mailbox)
             /\ sess' = [sess EXCEPT ![h].subs = Min(@ + 1, 2)]
             /\ UNCHANGED blocked
  /\ UNCHANGED <<log, key, cons, got, lastFail, runs, lim, call, hist>>

\* Handler<SubscribeToEvents> for Server
HandleSubscribe ==
  /\ ~blocked
  /\ mailbox # <<>>
  /\ Head(mailbox).op = "sub"
  /\ LET h == Head(mailbox).h
     IN IF ShardHeld(h)
        THEN /\ blocked' = TRUE
             /\ UNCHANGED <<sockets, mailbox, sess>>
        ELSE /\ sockets' = [sockets EXCEPT ![sess[h].chan] = @ \cup {h}]
             /\ mailbox' = Tail(mailbox)
             /\ sess' = [sess EXCEPT ![h].subs = Min(@ + 1, 2)]
             /\ UNCHANGED blocked
  /\ UNCHANGED <<log, key, cons, got, lastFail, runs, lim, call, hist>>

\* Handler<UnsubscribeFromEvents> for Server
HandleUnsubscribe ==
  /\ ~blocked
  /\ mailbox # <<>>
  /\ Head(mailbox).op = "unsub"
  /\ LET h == Head(mailbox).h
     IN IF ShardHeld(h)
        THEN /\ blocked' = TRUE
             /\ UNCHANGED <<sockets, mailbox>>
        ELSE /\ sockets' = [sockets EXCEPT ![sess[h].chan] = @ \ {h}]
             /\ mailbox' = Tail(mailbox)
             /\ UNCHANGED blocked
  /\ UNCHANGED <<log, key, cons, sess, got, lastFail, runs, lim, call, hist>>

\* A SubscribeToEvents or an UnsubscribeFromEvents reaches the Server's
\* mailbox (Addr<Server>::send, do_send).
HubSend(op, h) ==
  /\ Len(mailbox) < lim.mailbox
  /\ mailbox' = Append(mailbox, [op |-> op, h |-> h])
  /\ UNCHANGED <<log, key, cons, sockets, sess, blocked, got, lastFail, runs, lim, call, hist>>

\* ---------------------------------------------------------- the process
\* The operator restarts the process: main() again, over the same store.
Restart ==
  /\ runs < lim.runs
  /\ runs' = runs + 1
  /\ cons' = [c \in Channels |->
                IF cons[c].pc = "off" THEN cons[c] ELSE ConsFresh("start")]
  /\ sockets' = [c \in Channels |-> {}]
  /\ sess' = [h \in Handles |->
                IF sess[h].st \in {"starting", "active"}
                THEN [sess[h] EXCEPT !.st = "stopped", !.due = 0] ELSE sess[h]]
  /\ mailbox' = <<>>
  /\ blocked' = FALSE
  /\ UNCHANGED <<log, key, got, lastFail, lim, call, hist>>

Next ==
  \/ \E c \in Channels, e \in Entries : XAdd(c, e)
  \/ \E c \in Channels : ConsumerGet(c)
  \/ \E c \in Channels : XReadServe(c)
  \/ \E c \in Channels : XReadWake(c)
  \/ \E c \in Channels : XReadTimeout(c)
  \/ \E c \in Channels : ConsumerResume(c)
  \/ \E c \in Channels : ConsumerSet(c)
  \/ \E h \in Handles, c \in Channels, s \in Shards : Connect(h, c, s)
  \/ \E h \in Handles : SessionStarted(h)
  \/ \E h \in Handles : SessionHandleEvent(h)
  \/ \E h \in Handles : SessionStop(h)
  \/ HandleSubscribe
  \/ HandleUnsubscribe

NextRuns == Next \/ Restart

\* One run of the process.
Spec == Init /\ [][Next]_vars

\* The process and its restarts.
SpecRuns == InitRuns /\ [][NextRuns]_vars

\* One run in which every task and actor that can take a step is polled: the
\* tokio tasks of the consumers, the Server actor, the session actors.  The
\* store's producer and the clients owe nothing.
Fairness ==
  /\ \A c \in Channels :
       /\ WF_vars(ConsumerGet(c)) /\ WF_vars(XReadServe(c))
       /\ WF_vars(XReadWake(c)) /\ WF_vars(XReadTimeout(c))
       /\ WF_vars(ConsumerResume(c)) /\ WF_vars(ConsumerSet(c))
  /\ \A h \in Handles :
       WF_vars(SessionStarted(h)) /\ WF_vars(SessionHandleEvent(h))
  /\ WF_vars(HandleSubscribe) /\ WF_vars(HandleUnsubscribe)

FairSpec == Init /\ [][Next]_vars /\ Fairness

\* One run with a consumer on each channel.
SpecChans == InitChans /\ [][Next]_vars

\* Sessions, their clients and the clock; nothing is appended to the stream,
\* the consumer turns in its loop of empty reads.
InitHb ==
  InitOn({"nft_mint"}, [log |-> 0, sessions |-> HbMaxSessions, runs |-> 1,
                        texts |-> {TxtOwner}])

NextHb ==
  \/ \E c \in Channels : ConsumerGet(c)
  \/ \E c \in Channels : XReadServe(c)
  \/ \E c \in Channels : XReadTimeout(c)
  \/ \E c \in Channels : ConsumerSet(c)
  \/ \E h \in Handles, c \in Channels, s \in Shards : Connect(h, c, s)
  \/ \E h \in Handles : SessionStarted(h)
  \/ \E h \in Handles : SessionStop(h)
  \/ HandleSubscribe
  \/ HandleUnsubscribe
  \/ Pass
  \/ \E h \in Handles : HeartbeatTick(h)
  \/ \E h \in Handles : ClientPing(h)
  \/ \E h \in Handles : ClientPong(h)
  \/ \E h \in Handles, t \in Texts : ClientText(h, t)
  \/ \E h \in Handles : ClientOther(h)

SpecHb == InitHb /\ [][NextHb]_vars

\* The Server's handlers alone, on empty sets: every handle is of one
\* channel (its type) and one shard (its hash); the messages come in any
\* order and number.
InitHub ==
  /\ log = [c \in Channels |-> <<>>]
  /\ key = [k \in SaveKeys |-> Nil]
  /\ cons = [c \in Channels |-> ConsFresh("off")]
  /\ sockets = [c \in Channels |-> {}]
  /\ sess \in [Handles -> {[SessFresh EXCEPT !.chan = c, !.shard = s] :
                              c \in Channels, s \in Shards}]
  /\ mailbox = <<>>
  /\ blocked = FALSE
  /\ got = [h \in Handles |-> <<>>]
  /\ lastFail = [c \in Channels |-> <<>>]
  /\ hist = [c \in Channels |-> [read |-> {}, ok |-> {}]]
  /\ runs = 1
  /\ lim = [log |-> 0, sessions |-> 0, runs |-> 1, texts |-> {},
            mailbox |-> HubMaxMailbox]
  /\ call = NoCall

NextHub ==
  \/ \E op \in {"sub", "unsub"}, h \in Handles : HubSend(op, h)
  \/ HandleSubscribe
  \/ HandleUnsubscribe

SpecHub == InitHub /\ [][NextHub]_vars

\* The process and its restarts over a store whose commands can fail.
InitStore ==
  InitOn({"nft_mint"}, [log |-> StoreMaxLog, sessions |-> StoreMaxSessions,
                        runs |-> StoreMaxRuns, texts |-> {}])

NextStore ==
  \/ NextRuns
  \/ \E c \in Channels : ConsumerGetErr(c)
  \/ \E c \in Channels : XReadErr(c)
  \/ \E c \in Channels : ConsumerSetErr(c)

SpecStore == InitStore /\ [][NextStore]_vars

\* The hub, and clients that send text frames and frames of other kinds.
NextClients ==
  \/ Next
  \/ \E h \in Handles, t \in Texts : ClientText(h, t)
  \/ \E h \in Handles : ClientOther(h)

InitFilter ==
  InitOn({"nft_mint"}, [log |-> FilterMaxLog, sessions |-> FilterMaxSessions,
                        runs |-> 1, texts |-> Texts])

SpecFilter == InitFilter /\ [][NextClients]_vars

InitClients ==
  InitOn({"nft_mint"}, [log |-> ClientsMaxLog, sessions |-> ClientsMaxSessions,
                        runs |-> 1, texts |-> {TxtBoth}])

SpecClients == InitClients /\ [][NextClients]_vars

\* The consumers of both channels over one store, through restarts of the
\* process, with no client connected.
InitCursors ==
  InitOn(Channels, [log |-> CursorsMaxLog, sessions |-> 0, runs |-> CursorsMaxRuns])

NextCursors ==
  \/ \E c \in Channels, e \in Entries : XAdd(c, e)
  \/ \E c \in Channels : ConsumerGet(c)
  \/ \E c \in Channels : XReadServe(c)
  \/ \E c \in Channels : XReadWake(c)
  \/ \E c \in Channels : XReadTimeout(c)
  \/ \E c \in Channels : ConsumerSet(c)
  \/ Restart

SpecCursors == InitCursors /\ [][NextCursors]_vars

\* ------------------------------------------- the Filters of every domain
\* Option<Vec<_>>, Option<HashMap<_, _>>, Option<Balance>: None, or Some(v).
Absent == [some |-> FALSE, v |-> <<>>]
Some(x) == [some |-> TRUE, v |-> x]

\* A Balance is a String; a string is the sequence of its characters.
Digits == <<"0", "1", "2", "3", "4", "5", "6", "7", "8", "9">>
IsDigit(ch) == \E d \in 1..10 : Digits[d] = ch
DigitOf(ch) == (CHOOSE d \in 1..10 : Digits[d] = ch) - 1
\* u128::MAX = 2^128 - 1, in decimal.
U128_MAX ==
  <<"3","4","0","2","8","2","3","6","6","9","2","0","9","3","8","4","6","3","4",
    "6","3","3","7","4","6","0","7","4","3","1","7","6","8","2","1","1","4","5","5">>
\* 2^128 and 10 * 2^128, in decimal.
TwoTo128 ==
  <<"3","4","0","2","8","2","3","6","6","9","2","0","9","3","8","4","6","3","4",
    "6","3","3","7","4","6","0","7","4","3","1","7","6","8","2","1","1","4","5","6">>
TenTimesTwoTo128 == TwoTo128 \o <<"0">>

RECURSIVE StripZeros(_)
StripZeros(s) ==
  IF Len(s) > 1 /\ s[1] = "0" THEN StripZeros(Tail(s)) ELSE s

\* a < b, for two sequences of digits of one length.
RECURSIVE LexLt(_, _)
LexLt(a, b) ==
  IF a = <<>> THEN FALSE
  ELSE IF a[1] = b[1] THEN LexLt(Tail(a), Tail(b))
  ELSE DigitOf(a[1]) < DigitOf(b[1])

\* a < b, for two numbers written without leading zeros.
NatLt(a, b) ==
  \/ Len(a) < Len(b)
  \/ Len(a) = Len(b) /\ LexLt(a, b)

ParseErr == [ok |-> FALSE, v |-> <<>>]
\* str::parse::<u128>: Err on the empty string, on a lone sign, on any
\* character that is not a digit after one leading "+", and on a value
\* above u128::MAX; Ok(value) otherwise.
ParseU128(s) ==
  LET d == IF Len(s) > 0 /\ s[1] = "+" THEN Tail(s) ELSE s IN
  IF Len(s) = 0 THEN ParseErr
  ELSE IF Len(s) = 1 /\ s[1] \in {"+", "-"} THEN ParseErr
  ELSE IF \E i \in 1..Len(d) : ~IsDigit(d[i]) THEN ParseErr
  ELSE IF NatLt(U128_MAX, StripZeros(d)) THEN ParseErr
  ELSE [ok |-> TRUE, v |-> StripZeros(d)]

\* if let (Ok(total_amount), Ok(min)) = (..parse::<u128>(), ..parse::<u128>())
\* { if total_amount < min { return false } } else { return false }
AmountAtLeast(total_amount, min) ==
  LET a == ParseU128(total_amount)
      m == ParseU128(min)
  IN  a.ok /\ m.ok /\ ~NatLt(a.v, m.v)

\* NftTransferFilter::matches
NftTransferFilter_matches(f, e) ==
  /\ f.contract_id # None => e.contract_id = f.contract_id
  /\ IF f.involved_account_ids.some
     THEN \/ e.old_owner_id \in f.involved_account_ids.v
          \/ e.new_owner_id \in f.involved_account_ids.v
     ELSE /\ f.old_owner_id # None => e.old_owner_id = f.old_owner_id
          /\ f.new_owner_id # None => e.new_owner_id = f.new_owner_id

\* PotlockDonationEventFilter::matches, had min_amounts been read with
\* unwrap_or_default(): no map is an empty map.
PotlockDonationEventFilter_matchesDefault(f, e) ==
  /\ f.project_id # None => e.project_id = f.project_id
  /\ f.donor_id # None => e.donor_id = f.donor_id
  /\ f.referrer_id # None => e.referrer_id = f.referrer_id
  /\ e.donor_id \in DOMAIN f.min_amounts.v
  /\ AmountAtLeast(e.total_amount, f.min_amounts.v[e.donor_id])

\* PotlockDonationEventFilter::matches
PotlockDonationEventFilter_matches(f, e) ==
  /\ f.project_id # None => e.project_id = f.project_id
  /\ f.donor_id # None => e.donor_id = f.donor_id
  /\ f.referrer_id # None => e.referrer_id = f.referrer_id
  /\ f.min_amounts.some =>
       /\ e.donor_id \in DOMAIN f.min_amounts.v
       /\ AmountAtLeast(e.total_amount, f.min_amounts.v[e.donor_id])

\* PotlockPotProjectDonationEventFilter::matches
PotlockPotProjectDonationEventFilter_matches(f, e) ==
  /\ f.pot_id # None => e.pot_id = f.pot_id
  /\ f.project_id # None => e.project_id = f.project_id
  /\ f.donor_id # None => e.donor_id = f.donor_id
  /\ f.referrer_id # None => e.referrer_id = f.referrer_id
  /\ f.min_amount_near.some =>
       AmountAtLeast(e.total_amount, f.min_amount_near.v)

\* PotlockPotDonationEventFilter::matches
PotlockPotDonationEventFilter_matches(f, e) ==
  /\ f.pot_id # None => e.pot_id = f.pot_id
  /\ f.donor_id # None => e.donor_id = f.donor_id
  /\ f.referrer_id # None => e.referrer_id = f.referrer_id
  /\ f.min_amount_near.some =>
       AmountAtLeast(e.total_amount, f.min_amount_near.v)

\* TradePoolEventFilter::matches
TradePoolEventFilter_matches(f, e) ==
  /\ f.pool_id # None => e.pool = f.pool_id
  /\ f.account_id # None => e.trader = f.account_id

\* TradeSwapEventFilter::matches, had it asked for the key alone.
TradeSwapEventFilter_matchesKeyOnly(f, e) ==
  /\ f.account_id # None => e.trader = f.account_id
  /\ f.involved_token_account_ids.some =>
       \A involved_token \in f.involved_token_account_ids.v :
          involved_token \in DOMAIN e.balance_changes

\* TradeSwapEventFilter::matches
TradeSwapEventFilter_matches(f, e) ==
  /\ f.account_id # None => e.trader = f.account_id
  /\ f.involved_token_account_ids.some =>
       \A involved_token \in f.involved_token_account_ids.v :
          ~ \/ involved_token \notin DOMAIN e.balance_changes
            \/ e.balance_changes[involved_token] = <<"0">>

\* TradePoolChangeEventFilter::matches
TradePoolChangeEventFilter_matches(f, e) ==
  f.pool_id # None => e.pool_id = f.pool_id

\* What the filters and the events are drawn from.
Accounts == {"alice", "bob", "carol"}
Contracts == {"nft.near", "other.near"}
Tokens == {"usdc.token", "wrap.near"}
Amounts ==
  {<<"0">>, <<"5">>, <<"1", "0">>, <<"0", "0", "7">>, <<>>, <<"-", "1">>,
   <<"1", "x">>, <<"+", "5">>, U128_MAX, TwoTo128, TenTimesTwoTo128}
BalanceChanges == {<<"0">>, <<"5">>, <<"0", "0">>}
\* The maps from some keys of K to values of V.
Maps(K, V) == UNION {[D -> V] : D \in SUBSET K}

NftMintFilters ==
  [owner_id : {None, "alice", "bob"}, contract_id : {None} \cup Contracts]
NftMintEvents == [owner_id : {"alice", "bob"}, contract_id : Contracts]

NftTransferFilters ==
  [involved_account_ids : {Absent, Some({"alice"}), Some({"alice", "bob"})},
   old_owner_id : {None, "alice", "bob"}, new_owner_id : {None, "bob"},
   contract_id : {None, "nft.near"}]
NftTransferEvents ==
  [old_owner_id : Accounts, new_owner_id : Accounts, contract_id : Contracts]

PotlockDonationFilters ==
  [project_id : {None, "p1"}, donor_id : {None, "alice"},
   referrer_id : {None, "ref"},
   min_amounts : {Absent} \cup {Some(m) : m \in Maps({"alice"}, Amounts)}]
PotlockDonationEvents ==
  [project_id : {"p1", "p2"}, donor_id : {"alice", "bob"},
   referrer_id : {None, "ref"}, total_amount : Amounts]

PotlockPotProjectDonationFilters ==
  [pot_id : {None, "pot1"}, project_id : {None, "p1"},
   donor_id : {None, "alice"}, referrer_id : {None, "ref"},
   min_amount_near : {Absent} \cup {Some(t) : t \in Amounts}]
PotlockPotProjectDonationEvents ==
  [pot_id : {"pot1", "pot2"}, project_id : {"p1", "p2"}, donor_id : {"alice"},
   referrer_id : {None, "ref"}, total_amount : Amounts]

PotlockPotDonationFilters ==
  [pot_id : {None, "pot1"}, donor_id : {None, "alice"},
   referrer_id : {None, "ref"},
   min_amount_near : {Absent} \cup {Some(t) : t \in Amounts}]
PotlockPotDonationEvents ==
  [pot_id : {"pot1", "pot2"}, donor_id : {"alice", "bob"},
   referrer_id : {None, "ref"}, total_amount : Amounts]

TradePoolFilters == [pool_id : {None, "pool1"}, account_id : {None, "alice"}]
TradePoolEvents == [pool : {"pool1", "pool2"}, trader : {"alice", "bob"}]

TradeSwapFilters ==
  [account_id : {None, "alice"},
   involved_token_account_ids :
     {Absent, Some({}), Some({"usdc.token"}), Some(Tokens)}]
TradeSwapEvents ==
  [trader : {"alice", "bob"}, balance_changes : Maps(Tokens, BalanceChanges)]

TradePoolChangeFilters == [pool_id : {None, "pool1"}]
TradePoolChangeEvents == [pool_id : {"pool1", "pool2"}]

\* One evaluation of fn's matches on filter f and event e, not yet made.
Call(fn, f, e) == [fn |-> fn, filter |-> f, event |-> e, done |-> FALSE,
                   ret |-> FALSE]
Calls ==
  {Call("nft_mint", f, e) : f \in NftMintFilters, e \in NftMintEvents}
  \cup {Call("nft_transfer", f, e) :
          f \in NftTransferFilters, e \in NftTransferEvents}
  \cup {Call("potlock_donation", f, e) :
          f \in PotlockDonationFilters, e \in PotlockDonationEvents}
  \cup {Call("potlock_pot_project_donation", f, e) :
          f \in PotlockPotProjectDonationFilters,
          e \in PotlockPotProjectDonationEvents}
  \cup {Call("potlock_pot_donation", f, e) :
          f \in PotlockPotDonationFilters, e \in PotlockPotDonationEvents}
  \cup {Call("trade_pool", f, e) : f \in TradePoolFilters, e \in TradePoolEvents}
  \cup {Call("trade_swap", f, e) : f \in TradeSwapFilters, e \in TradeSwapEvents}
  \cup {Call("trade_pool_change", f, e) :
          f \in TradePoolChangeFilters, e \in TradePoolChangeEvents}

\* A filter and an event of one domain; nothing else is running.
InitMatches ==
  /\ log = [c \in Channels |-> <<>>]
  /\ key = [k \in SaveKeys |-> Nil]
  /\ cons = [c \in Channels |-> ConsFresh("off")]
  /\ sockets = [c \in Channels |-> {}]
  /\ sess = [h \in Handles |-> SessFresh]
  /\ mailbox = <<>>
  /\ blocked = FALSE
  /\ got = [h \in Handles |-> <<>>]
  /\ lastFail = [c \in Channels |-> <<>>]
  /\ hist = [c \in Channels |-> [read |-> {}, ok |-> {}]]
  /\ runs = 1
  /\ lim = [log |-> 0, sessions |-> 0, runs |-> 1, texts |-> {}]
  /\ call \in Calls

\* filter.matches(&event) returns r.
Returns(fn, r) ==
  /\ call.fn = fn
  /\ ~call.done
  /\ call' = [call EXCEPT !.done = TRUE, !.ret = r]
  /\ UNCHANGED <<log, key, cons, sockets, sess, mailbox, blocked, got,
                 lastFail, runs, lim, hist>>

MatchNftMint == Returns("nft_mint", Matches(call.filter, call.event))
MatchNftTransfer ==
  Returns("nft_transfer", NftTransferFilter_matches(call.filter, call.event))
MatchPotlockDonation ==
  Returns("potlock_donation",
          PotlockDonationEventFilter_matches(call.filter, call.event))
MatchPotlockPotProjectDonation ==
  Returns("potlock_pot_project_donation",
          PotlockPotProjectDonationEventFilter_matches(call.filter, call.event))
MatchPotlockPotDonation ==
  Returns("potlock_pot_donation",
          PotlockPotDonationEventFilter_matches(call.filter, call.event))
MatchTradePool ==
  Returns("trade_pool", TradePoolEventFilter_matches(call.filter, call.event))
MatchTradeSwap ==
  Returns("trade_swap", TradeSwapEventFilter_matches(call.filter, call.event))
MatchTradePoolChange ==
  Returns("trade_pool_change",
          TradePoolChangeEventFilter_matches(call.filter, call.event))

NextMatches ==
  \/ MatchNftMint
  \/ MatchNftTransfer
  \/ MatchPotlockDonation
  \/ MatchPotlockPotProjectDonation
  \/ MatchPotlockPotDonation
  \/ MatchTradePool
  \/ MatchTradeSwap
  \/ MatchTradePoolChange

SpecMatches == InitMatches /\ [][NextMatches]_vars

\* ================================================================ claims
Member(h) == h \in sockets[sess[h].chan]
Known(h) == sess[h].st # "none"

\* C1: a delivery failure stays with the subscriber it happened to: the
\* consumer of the channel is never stopped by one (it goes on to the other
\* handles of the set and to the following entries).
C1_DeliveryFailureIsolated ==
  \A c \in Channels : cons[c].cause # "delivery"

\* C2: dispatch does not wait for one subscriber: while the consumer awaits
\* the answer of handle A for an event, every other active handle that was in
\* the set when the dispatch began has been sent the event.
C2_NoStall ==
  \A c \in Channels :
    cons[c].pc = "await" =>
      \A b \in cons[c].snap \cap sockets[c] :
        sess[b].st = "active" => Ord(b) <= Ord(cons[c].cur)

\* C3 (as claimed): a handle is in its channel's set iff its session is
\* alive: every active session is a member and no terminated session is.
C3_MemberIffAlive ==
  \A h \in Handles :
    Known(h) => /\ sess[h].st = "active" => Member(h)
                /\ Member(h) => sess[h].st # "stopped"

\* C3 (amended): a handle is in the set exactly from the Server's handling of
\* its SubscribeToEvents to the Server's handling of its
\* UnsubscribeFromEvents: every active session is a member, and a terminated
\* one is a member as long as its unsubscribe waits in the Server's mailbox.
C3_MemberIffRegistered ==
  \A h \in Handles :
    Known(h) => /\ Member(h) <=> /\ ~Pending("sub", h)
                                 /\ sess[h].st = "stopped" => Pending("unsub", h)
                /\ sess[h].st = "active" => Member(h)

\* A terminated session whose handle dispatch is about to iterate over.
C3_Witness ==
  \E h \in Handles :
    /\ sess[h].st = "stopped" /\ Member(h) /\ Pending("unsub", h)
    /\ cons[sess[h].chan].pc = "blocked"

\* C4: every session termination is eventually followed by the removal of
\* the session's handle from its channel's set.
C4_DeadHandleRemoved ==
  \A h \in Handles :
    [](sess[h].st = "stopped" => <>(~Member(h)))

\* C5: a session pushes the events of its channel in the order of their
\* IDs, the order the consumer read them in: inside a batch and from one
\* batch to the next.
C5_PushOrder ==
  \A h \in Handles :
    \A i, j \in 1..Len(got[h]) : i < j => got[h][i] < got[h][j]

\* A session that was pushed two entries of one batch.
C5_Witness ==
  \E h \in Handles :
    /\ Len(got[h]) >= 2
    /\ LET w == cons[sess[h].chan].whole
       IN Len(w) >= 2 /\ {w[1], w[2]} \subseteq Range(got[h])

\* C6: once a batch of N >= 1 entries is handled and the cursor written, the
\* key holds the ID of the last entry of the batch.
C6_CursorIsLastOfBatch ==
  \A c \in Channels :
    /\ (cons[c].pc = "set" /\ cons[c].whole # <<>>)
         => cons[c].last_id = Id(Last(cons[c].whole))
    /\ (cons[c].pc = "read" /\ cons[c].whole # <<>>)
         => key[SaveKey(c)] = Id(Last(cons[c].whole))

\* A batch of two entries whose cursor is written.
C6_Witness ==
  \E c \in Channels :
    cons[c].pc = "read" /\ Len(cons[c].whole) >= 2 /\ key[SaveKey(c)].tag = "id"

\* The order of the cursor's values: nothing, then "$", then the IDs.
CurLe(a, b) ==
  \/ a.tag = "nil"
  \/ a.tag = "$" /\ b.tag # "nil"
  \/ a.tag = "id" /\ b.tag = "id" /\ a.n <= b.n

\* The write of the cursor that follows an empty batch.
EmptyBatchSet(c) ==
  cons[c].pc = "set" /\ cons[c].whole = <<>> /\ cons'[c].pc = "read"

C8_ResumeAfterCursor ==
  \A c \in Channels :
    cons[c].start.tag = "id" =>
      /\ cons[c].after = -1 \/ cons[c].after >= cons[c].start.n
      /\ \A i \in Range(cons[c].whole) : i > cons[c].start.n
      /\ \A h \in Handles :
           (Known(h) /\ sess[h].chan = c /\ Inbox(h) # 0)
             => Inbox(h) > cons[c].start.n

\* A restarted consumer that was given a batch.
C8_Witness ==
  \E c \in Channels :
    runs >= 2 /\ cons[c].start.tag = "id" /\ cons[c].whole # <<>>

\* The cursor is not written for a batch in which handling failed.
C9_NotPersisted ==
  \A c \in Channels :
    (cons[c].cause # "none" /\ key[SaveKey(c)].tag = "id")
      => \A i \in Range(cons[c].whole) : i > key[SaveKey(c)].n

\* The first answer to an XREAD.
FirstReply(c) ==
  cons[c].pc \in {"read", "blocked"} /\ cons'[c].pc \in {"set", "await", "stopped"}

C10_DecodeFailureFatal ==
  /\ [](\A c \in Channels :
          cons[c].cause = "decode" =>
            /\ cons[c].pc = "stopped"
            /\ \A h \in Handles :
                 (Known(h) /\ sess[h].chan = c) =>
                   /\ Inbox(h) = 0
                   /\ \A i \in Range(got[h]) : i < cons[c].failed)
  /\ [][\A c \in Channels :
          (cons[c].cause = "decode" /\ runs' = runs) =>
            /\ cons'[c] = cons[c]
            /\ key'[SaveKey(c)] = key[SaveKey(c)]
            /\ \A h \in Handles :
                 (Known(h) /\ sess[h].chan = c) => got'[h] = got[h]]_vars

\* A consumer ended by a malformed entry, with a later entry in the stream
\* and an active subscriber.
C10_Witness ==
  \E c \in Channels, h \in Handles :
    /\ cons[c].cause = "decode" /\ Len(log[c]) > cons[c].failed
    /\ sess[h].st = "active" /\ sess[h].chan = c /\ Member(h)

\* What belongs to channel c alone.
Of(c) ==
  <<log[c], key[SaveKey(c)], cons[c], sockets[c],
    [h \in {g \in Handles : Known(g) /\ sess[g].chan = c} |-> <<sess[h], got[h]>>]>>

\* The step the consumer of c is due to take can be taken.
CanGoOn(c) ==
  /\ cons[c].pc = "start" => ENABLED ConsumerGet(c)
  /\ cons[c].pc = "read" => ENABLED XReadServe(c)
  /\ cons[c].pc = "blocked" => ENABLED (XReadWake(c) \/ XReadTimeout(c))
  /\ cons[c].pc = "set" => ENABLED ConsumerSet(c)
  /\ (cons[c].pc = "await" /\ cons[c].reply # "pending") => ENABLED ConsumerResume(c)
  /\ \A h \in Handles :
       (sess[h].st = "active" /\ sess[h].chan = c /\ Inbox(h) # 0)
         => ENABLED SessionHandleEvent(h)

\* C11: the end of one channel's consumer leaves the other channels as they
\* are: the step in which the consumer of x ends changes nothing of another
\* channel y, and once it has ended the consumer of y and the sessions of y
\* take their steps (read, dispatch, push, save the cursor) as before.
C11_OtherChannelsUnaffected ==
  /\ [](\A x, y \in Channels :
          (x # y /\ cons[x].pc = "stopped" /\ ~blocked) => CanGoOn(y))
  /\ [][\A x, y \in Channels :
          (x # y /\ cons[x].pc # "stopped" /\ cons'[x].pc = "stopped")
            => Of(y)' = Of(y) /\ blocked' = blocked]_vars

\* The consumer of one channel has ended; another channel's consumer has
\* read an entry since, saved its cursor, and a session has pushed the entry.
C11_Witness ==
  \E x, y \in Channels, h \in Handles :
    /\ x # y /\ cons[x].pc = "stopped" /\ cons[y].pc = "read"
    /\ cons[y].whole # <<>> /\ key[SaveKey(y)] = Id(Last(cons[y].whole))
    /\ sess[h].chan = y /\ got[h] # <<>> /\ Last(got[h]) = Last(cons[y].whole)

\* Seconds between last_heartbeat and the latest turn of the interval (less
\* than 0: the signal came after that turn).
IdleAtLastTick(h) == sess[h].idle - (HEARTBEAT_INTERVAL - sess[h].due)

\* C12: the heartbeat closes a session at the first turn of the 5-second
\* interval at which more than 15 seconds have passed since the last
\* liveness signal, and at no turn at which 15 seconds or less have passed.
C12_HeartbeatTimeout ==
  \A h \in Handles :
    /\ sess[h].st = "active" => IdleAtLastTick(h) <= CLIENT_TIMEOUT
    /\ sess[h].why = "heartbeat" =>
         /\ sess[h].st = "stopped"
         /\ sess[h].idle > CLIENT_TIMEOUT
         /\ sess[h].idle - HEARTBEAT_INTERVAL <= CLIENT_TIMEOUT

\* A session closed 16 seconds after its last signal.
C12_Witness ==
  \E h \in Handles :
    sess[h].why = "heartbeat" /\ sess[h].idle = CLIENT_TIMEOUT + 1

\* C13: a session that has had any frame from its client in the last 15
\* seconds is not closed by the heartbeat.
C13_AnyMessageIsSignal ==
  \A h \in Handles :
    sess[h].why = "heartbeat" => sess[h].quiet > CLIENT_TIMEOUT

\* The session h answers the event it was handed.
Answers(h) == Inbox(h) # 0 /\ cons'[sess[h].chan].reply = "ok"

\* What the filter of h says of entry e, field by field.
Lets(h, e) ==
  LET f == sess[h].filter
  IN ~f.some \/ /\ (f.owner_id = None \/ e.owner_id = f.owner_id)
                /\ (f.contract_id = None \/ e.contract_id = f.contract_id)

C15_ReplacedWholesale ==
  [][\A h \in Handles, t \in Texts :
       (ClientText(h, t) /\ FromStrOk(t)) =>
         /\ sess'[h].filter.some
         /\ sess'[h].filter.owner_id =
              (IF t.owner_id = Missing THEN None ELSE t.owner_id)
         /\ sess'[h].filter.contract_id =
              (IF t.contract_id = Missing THEN None ELSE t.contract_id)]_vars

\* A session whose filter on the owner was replaced by a filter on the
\* contract alone has pushed an event of another owner.
C15_Witness ==
  \E h \in Handles :
    LET r == cons[sess[h].chan]
    IN /\ sess[h].prev.owner_id = "bob" /\ sess[h].filter = FromStr(TxtContract)
       /\ r.pc = "await" /\ r.cur = h /\ r.reply = "ok"
       /\ Head(r.batch) \in Range(got[h])
       /\ log[sess[h].chan][Head(r.batch)].owner_id # "bob"

\* C16: a text that does not decode to a filter changes nothing: the
\* session is active as before, with the filter (or none) it had, nothing is
\* pushed to the client, and the sets and the Server's mailbox are as before.
C16_BadTextChangesNothing ==
  [][\A h \in Handles, t \in Texts :
       (ClientText(h, t) /\ ~FromStrOk(t)) =>
         /\ sess'[h].st = "active" /\ sess'[h].filter = sess[h].filter
         /\ sess'[h].why = sess[h].why
         /\ got' = got /\ sockets' = sockets /\ mailbox' = mailbox
         /\ cons' = cons]_vars

\* A session with a filter, a member of its set, has had a text that did
\* not decode.
C16_Witness ==
  \E h \in Handles :
    /\ sess[h].st = "active" /\ sess[h].txt = "err" /\ sess[h].filter.some
    /\ Member(h)

\* C17: a frame that is no ping, pong or text closes the session it came
\* to and nothing more: the channel's consumer is not ended by the session
\* that was closed for it.
C17_ViolationStaysLocal ==
  \A c \in Channels :
    cons[c].cause = "delivery" => sess[cons[c].cur].why # "protocol"

\* The Server has handled the message at the head of its mailbox.
Handled == mailbox # <<>> /\ mailbox' = Tail(mailbox)

\* C18: subscribing a member leaves the set as it is (the handle is in it
\* once), unsubscribing a handle that is no member leaves the set as it is,
\* and either touches no other handle and no other channel's set.
C18_SubscribeIdempotent ==
  [][Handled =>
       LET h == Head(mailbox).h
           op == Head(mailbox).op
           c == sess[h].chan
       IN /\ (op = "sub" /\ h \in sockets[c]) => sockets' = sockets
          /\ (op = "unsub" /\ h \notin sockets[c]) => sockets' = sockets
          /\ op = "sub" => h \in sockets'[c]
          /\ op = "unsub" => h \notin sockets'[c]
          /\ \A d \in Channels, g \in Handles :
               (d # c \/ g # h) => (g \in sockets'[d] <=> g \in sockets[d])]_vars

\* A handle subscribed twice is a member, beside a member of another kind.
C18_Witness ==
  \E h, g \in Handles :
    /\ sess[h].subs = 2 /\ h \in sockets[sess[h].chan]
    /\ g # h /\ g \in sockets[sess[g].chan]

\* C19: a consumer started with no cursor reads on from where its last read
\* ended: no entry appended while it runs falls between two of its reads.
C19_DollarSkipsNothing ==
  [][\A c \in Channels :
       (cons[c].start = Nil /\ cons[c].pc = "read" /\ cons[c].after >= 0
        /\ cons'[c].pc \in {"blocked", "set", "await", "stopped"})
         => cons'[c].after = cons[c].after + Len(cons[c].whole)]_vars

\* C20: a consumer whose read of the cursor failed reads no entry.
C20_NoStartOnStoreFailure ==
  \A c \in Channels :
    cons[c].start = Failed => cons[c].after = -1 /\ cons[c].whole = <<>>

\* ----------------------------------------------------- claims on matches
\* The filter of a domain in which every field is absent.
AllAbsent(fn) ==
  CASE fn = "nft_mint" -> [owner_id |-> None, contract_id |-> None]
    [] fn = "nft_transfer" ->
         [involved_account_ids |-> Absent, old_owner_id |-> None,
          new_owner_id |-> None, contract_id |-> None]
    [] fn = "potlock_donation" ->
         [project_id |-> None, donor_id |-> None, referrer_id |-> None,
          min_amounts |-> Absent]
    [] fn = "potlock_pot_project_donation" ->
         [pot_id |-> None, project_id |-> None, donor_id |-> None,
          referrer_id |-> None, min_amount_near |-> Absent]
    [] fn = "potlock_pot_donation" ->
         [pot_id |-> None, donor_id |-> None, referrer_id |-> None,
          min_amount_near |-> Absent]
    [] fn = "trade_pool" -> [pool_id |-> None, account_id |-> None]
    [] fn = "trade_swap" ->
         [account_id |-> None, involved_token_account_ids |-> Absent]
    [] fn = "trade_pool_change" -> [pool_id |-> None]

\* C21: the filter of any domain in which every field is absent matches
\* every event of the domain.
C21_AllAbsentMatchesAll ==
  call.done /\ call.filter = AllAbsent(call.fn) => call.ret

\* A donation whose amount is no number at all went through the filter with
\* no field set.
C21_Witness ==
  /\ call.done
  /\ call.fn = "potlock_donation"
  /\ call.filter = AllAbsent(call.fn)
  /\ call.event.total_amount = <<>>
  /\ call.ret

\* C22: matches is the conjunction of the conditions of the fields that are
\* present, for NftTransferFilter (involved_account_ids together with
\* old_owner_id or new_owner_id included) and for TradePoolEventFilter.
C22_AndOfPresentFields ==
  LET f == call.filter
      e == call.event
  IN
  /\ call.done /\ call.fn = "nft_transfer" =>
       call.ret =
         /\ f.contract_id # None => e.contract_id = f.contract_id
         /\ f.involved_account_ids.some =>
              \/ e.old_owner_id \in f.involved_account_ids.v
              \/ e.new_owner_id \in f.involved_account_ids.v
         /\ f.old_owner_id # None => e.old_owner_id = f.old_owner_id
         /\ f.new_owner_id # None => e.new_owner_id = f.new_owner_id
  /\ call.done /\ call.fn = "trade_pool" =>
       call.ret =
         /\ f.pool_id # None => e.pool = f.pool_id
         /\ f.account_id # None => e.trader = f.account_id

\* The event references the identity x in one of the fields the filter of
\* the domain looks at.
References(fn, e, x) ==
  IF fn = "nft_transfer"
  THEN x \in {e.old_owner_id, e.new_owner_id}
  ELSE x \in DOMAIN e.balance_changes /\ e.balance_changes[x] # <<"0">>

\* C23: a filter with nothing but a list of identities matches every event
\* that references at least one of them.
C23_AnyListedIdentity ==
  LET f == call.filter IN
  /\ ( /\ call.done /\ call.fn = "nft_transfer"
       /\ f = [AllAbsent(call.fn) EXCEPT
                 !.involved_account_ids = f.involved_account_ids]
       /\ f.involved_account_ids.some
       /\ \E x \in f.involved_account_ids.v :
            References(call.fn, call.event, x) )
     => call.ret
  /\ ( /\ call.done /\ call.fn = "trade_swap"
       /\ f.account_id = None
       /\ f.involved_token_account_ids.some
       /\ \E x \in f.involved_token_account_ids.v :
            References(call.fn, call.event, x) )
     => call.ret

\* A decimal string: one digit or more, and nothing else.
IsDecimal(s) == Len(s) > 0 /\ \A i \in 1..Len(s) : IsDigit(s[i])
\* A string that is no way of writing a non-negative integer.
NoNumber(s) ==
  /\ ~IsDecimal(s)
  /\ ~(Len(s) > 1 /\ s[1] = "+" /\ IsDecimal(Tail(s)))

\* The evaluation is of a filter with a threshold and no other field.
ThresholdOnly ==
  CASE call.fn = "potlock_donation" ->
         /\ call.filter = [AllAbsent(call.fn) EXCEPT
                             !.min_amounts = call.filter.min_amounts]
         /\ call.filter.min_amounts.some
         /\ call.event.donor_id \in DOMAIN call.filter.min_amounts.v
    [] call.fn \in {"potlock_pot_project_donation", "potlock_pot_donation"} ->
         /\ call.filter = [AllAbsent(call.fn) EXCEPT
                             !.min_amount_near = call.filter.min_amount_near]
         /\ call.filter.min_amount_near.some
    [] OTHER -> FALSE
Threshold ==
  IF call.fn = "potlock_donation"
  THEN call.filter.min_amounts.v[call.event.donor_id]
  ELSE call.filter.min_amount_near.v

\* C24: a threshold filter is false when the amount or the threshold is no
\* non-negative integer, and is amount >= threshold for every two decimal
\* strings, those of 2^128 and more included.
C24_ThresholdOnDecimalStrings ==
  call.done /\ ThresholdOnly =>
    LET a == call.event.total_amount
        t == Threshold
    IN  /\ NoNumber(a) \/ NoNumber(t) => ~call.ret
        /\ IsDecimal(a) /\ IsDecimal(t) =>
             call.ret = ~NatLt(StripZeros(a), StripZeros(t))

\* C25: for the trade-swap filter a listed token whose balance change is "0"
\* is as good as a token with no balance change: the event does not match.
C25_ZeroIsNotInvolved ==
  call.done /\ call.fn = "trade_swap" /\ call.filter.involved_token_account_ids.some =>
    \A x \in call.filter.involved_token_account_ids.v :
       \/ x \notin DOMAIN call.event.balance_changes
       \/ call.event.balance_changes[x] = <<"0">>
       => ~call.ret

\* The one listed token is a key of balance_changes, with the value "0", and
\* the trader is the one asked for.
C25_Witness ==
  /\ call.done /\ call.fn = "trade_swap"
  /\ call.filter.account_id = call.event.trader
  /\ call.filter.involved_token_account_ids = Some({"usdc.token"})
  /\ "usdc.token" \in DOMAIN call.event.balance_changes
  /\ call.event.balance_changes["usdc.token"] = <<"0">>
  /\ ~call.ret

\* ------------------------------------------------- claims on the cursor
\* Entry i of channel c, read in run n, is behind the persisted cursor.
Behind(c, n, i) ==
  /\ key[SaveKey(c)].tag = "id"
  /\ <<n, i>> \in hist[c].read
  /\ i <= key[SaveKey(c)].n

\* handle() returns Ok(()) for an entry only when every handle that was in
\* the set from the start of the dispatch to its end has been handed it (and
\* pushed it, having no filter).
HandedToAll ==
  \A c \in Channels :
    \A i \in hist'[c].ok \ hist[c].ok :
      \A h \in cons[c].snap \cap sockets[c] :
        ~sess[h].filter.some => i \in Range(got[h])

C27_OnlyWhileSubscribed ==
  [][\A h \in Handles :
       got'[h] # got[h] =>
         LET c == sess[h].chan IN
         /\ h \in sockets[c]
         /\ sess[h].subs >= 1 /\ ~Pending("sub", h)
         /\ sess[h].st = "active" /\ ~Pending("unsub", h)
         /\ cons[c].pc = "await"
         /\ Head(cons[c].batch) \notin hist[c].ok
         /\ got'[h] = Append(got[h], Head(cons[c].batch))]_vars

\* Entry 1 went to a session that has left the set since, entry 2 to a
\* session that joined after entry 1.
C27_Witness ==
  \E c \in Channels, g, h \in Handles :
    /\ got[g] = <<1>> /\ sess[g].st = "stopped" /\ g \notin sockets[c]
    /\ got[h] = <<2>> /\ sess[h].chan = c /\ sess[g].chan = c
    /\ hist[c].ok = {1, 2}

\* How many times the client of h was pushed entry i.
Pushes(h, i) == Cardinality({k \in 1..Len(got[h]) : got[h][k] = i})

\* C28: in one run no session is pushed an entry twice; an event is handled
\* by a session with at most one push; and when the dispatch of an entry is
\* over, every active session that was in the set from its start to its end
\* (and has no filter) has been pushed the entry exactly once.
C28_ExactlyOnce ==
  /\ [](\A h \in Handles : \A i \in 1..Len(log[sess[h].chan]) : Pushes(h, i) <= 1)
  /\ [][\A h \in Handles : Len(got'[h]) <= Len(got[h]) + 1]_vars
  /\ [][\A c \in Channels :
          \A i \in hist'[c].ok \ hist[c].ok :
            \A h \in cons[c].snap \cap sockets[c] :
              (sess[h].st = "active" /\ ~sess[h].filter.some)
                => Pushes(h, i) = 1]_vars

\* A session still in the set and active that was pushed both entries, the
\* dispatch of which is over.
C28_Witness ==
  \E c \in Channels, h \in Handles :
    /\ sess[h].chan = c /\ sess[h].st = "active" /\ h \in sockets[c]
    /\ got[h] = <<1, 2>>
    /\ hist[c].ok = {1, 2}

\* ------------------------------------------- claims on the end of a session
\* The UnsubscribeFromEvents of h among the messages m.
Unsubs(m, h) ==
  Cardinality({k \in 1..Len(m) : m[k] = [op |-> "unsub", h |-> h]})

\* C29: however a session ends (heartbeat timeout, a frame that is no ping,
\* pong or text, the end of the client's stream), the step that ends it
\* sends one UnsubscribeFromEvents of its handle to the Server; no other
\* step sends one, and a session that has ended stays ended.
C29_OneUnsubscribePerEnd ==
  [][\A h \in Handles :
       /\ (sess[h].st \in {"starting", "active"} /\ sess'[h].st = "stopped")
            => mailbox' = Append(mailbox, [op |-> "unsub", h |-> h])
       /\ Unsubs(mailbox', h) > Unsubs(mailbox, h)
            => /\ sess[h].st \in {"starting", "active"}
               /\ sess'[h].st = "stopped"
               /\ Unsubs(mailbox', h) = 1
       /\ sess[h].st = "stopped" => sess'[h].st = "stopped"]_vars

\* A session ended by the heartbeat, its one unsubscribe in the mailbox.
C29_Witness ==
  \E h \in Handles :
    /\ sess[h].st = "stopped" /\ sess[h].why = "heartbeat"
    /\ Unsubs(mailbox, h) = 1

\* ------------------------------------------- claims on texts with no field
\* Some(filter) with every field absent.
SomeEmptyFilter == [some |-> TRUE, owner_id |-> None, contract_id |-> None]

\* C30: a text that is a JSON object with no field of the filter decodes, to
\* the filter with every field absent, which takes the place of the
\* session's filter; with it every event the session is handed is pushed to
\* the client.
C30_NoFieldIsNoConstraint ==
  /\ [][\A h \in Handles :
          ClientText(h, TxtEmpty) =>
            /\ sess'[h].txt = "ok"
            /\ sess'[h].filter = SomeEmptyFilter
            /\ sess'[h].prev = sess[h].filter]_vars
  /\ [](\A h \in Handles :
          sess[h].filter = SomeEmptyFilter =>
            \A c \in Channels : \A i \in 1..Len(log[c]) : Passes(h, log[c][i]))
  /\ [][\A h \in Handles :
          (sess[h].filter = SomeEmptyFilter /\ SessionHandleEvent(h))
            => got'[h] = Append(got[h], Inbox(h))]_vars

\* A session that was not pushed entry 1 under a filter that did not match
\* it, sent a text with no field, and was pushed entry 2.
C30_Witness ==
  \E h \in Handles :
    /\ sess[h].filter = SomeEmptyFilter
    /\ sess[h].txt = "ok"
    /\ sess[h].prev = FromStr(TxtBoth)
    /\ got[h] = <<2>>
    /\ hist[sess[h].chan].ok = {1, 2}

\* ---------------------------------------------- claims on a session's filter
\* C31: a session begins with no filter, whatever the filters of the
\* sessions before it, and while it has none it pushes every event it is
\* handed; the filter of a session changes only through a text frame of that
\* session that decodes, and such a frame changes no other session.
C31_FilterIsPerSession ==
  /\ [](\A h \in Handles :
          sess[h].st \in {"none", "starting"} => sess[h].filter = NoFilter)
  /\ [][\A h \in Handles :
          /\ (sess[h].st = "none" /\ sess'[h].st # "none")
               => sess'[h].filter = NoFilter
          /\ (~sess[h].filter.some /\ SessionHandleEvent(h))
               => got'[h] = Append(got[h], Inbox(h))
          /\ sess'[h].filter # sess[h].filter
               => \E t \in Texts : FromStrOk(t) /\ ClientText(h, t)
          /\ \A t \in Texts :
               ClientText(h, t) => \A g \in Handles \ {h} : sess'[g] = sess[g]]_vars

\* A session set a filter, was not pushed the entry, and ended; the session
\* that connected after it has no filter and was pushed the entry.
C31_Witness ==
  \E h, g \in Handles :
    /\ h < g
    /\ sess[h].st = "stopped" /\ sess[h].filter = FromStr(TxtBoth)
    /\ sess[g].st = "active" /\ sess[g].chan = sess[h].chan
    /\ ~sess[g].filter.some
    /\ got[h] = <<>> /\ got[g] = <<1>>

\* ------------------------------------------------- claims on cursor keys
\* A step of stream_events for channel c.
ConsumerStep(c) ==
  \/ ConsumerGet(c) \/ XReadServe(c) \/ XReadWake(c) \/ XReadTimeout(c)
  \/ ConsumerResume(c) \/ ConsumerSet(c)

\* C32: the keys of two channels differ; the consumer of a channel takes its
\* starting cursor from the key of its own channel, no step of it changes
\* the value under the key of another channel, and the value under a
\* channel's key changes only in the save of that channel's consumer.
C32_OwnCursorKeyOnly ==
  /\ [](\A c, d \in Channels : c # d => SaveKey(c) # SaveKey(d))
  /\ [][\A c \in Channels :
          /\ ConsumerStep(c)
               => \A d \in Channels \ {c} : key'[SaveKey(d)] = key[SaveKey(d)]
          /\ ConsumerGet(c) => cons'[c].start = key[SaveKey(c)]
          /\ key'[SaveKey(c)] # key[SaveKey(c)]
               => ConsumerSet(c) /\ key'[SaveKey(c)] = cons[c].last_id]_vars

\* Both consumers saved a cursor, one the id of an entry and the other "$";
\* after a restart each has taken up its own and both read on.
C32_Witness ==
  /\ runs = 2
  /\ key[SaveKey("nft_mint")] = Id(1) /\ key[SaveKey("nft_burn")] = Dollar
  /\ cons["nft_mint"].start = Id(1) /\ cons["nft_burn"].start = Dollar
  /\ cons["nft_mint"].pc = "blocked" /\ cons["nft_burn"].pc = "set"

====
